---------------------------- MODULE Spec2Model ----------------------------
(***************************************************************************)
(* A model of runner() in src/run_learned_metrics.py: the command-line     *)
(* driver that parses its arguments, configures the LLM client, makes one  *)
(* pass over a JSONL file, dispatches every record that is not skipped to  *)
(* a metric routine and writes one TSV row per processed record.           *)
(*                                                                         *)
(* Conventions.                                                            *)
(*   - Text is a sequence of one-character strings, so that split(',')     *)
(*     and int() are computed and not assumed.                             *)
(*   - A float is a record: a number of tenths, or NaN; an absent float    *)
(*     argument is the record NoFloat.                                     *)
(*   - An absent text argument is the one-element sequence Absent, which   *)
(*     no text equals since every element of a text is one character.      *)
(*   - A metric value is an integer number of sixteenths (every k/16 is a  *)
(*     float with an exact binary representation); a formatted value is an *)
(*     integer number of thousandths ("0.062" is 62).                      *)
(*   - The text fields of the record on line n are the opaque tokens       *)
(*     <<field name, n>>, so that the origin of a routine's argument can   *)
(*     be read off the call.                                               *)
(***************************************************************************)
EXTENDS Integers, Sequences, FiniteSets, TLC

\* ------------------------------------------------------------------ bounds
MaxRecords == 2      \* longest input file, in records
MaxValue   == 2      \* largest value a metric routine returns, in sixteenths

\* ------------------------------------------------------------- the inputs
None    == "None"
Absent  == << "None" >>
NoFloat == [ kind |-> "None", tenths |-> 0 ]
NaN     == [ kind |-> "nan", tenths |-> 0 ]
Float(tenths) == [ kind |-> "float", tenths |-> tenths ]

\* The members of the Metrics enumeration named by the match statement.
Metrics ==
  { "faithfulness", "answer_relevance", "context_precision",
    "context_utilization", "context_relevance", "context_recall",
    "answer_similarity", "answer_correctness" }

\* --model-temp: absent, not a number, or a float (tenths).
TempArgs ==
  { NoFloat, NaN, Float(-1), Float(0), Float(5), Float(10), Float(11) }

\* --qs_to_skip / --qs_to_use: absent, or the text given on the command line.
QsArgs ==
  { Absent,
    << "1" >>,
    << "1", "1" >>,
    << "1", ",", "1", "1" >>,
    << "1", "," >> }

\* The "id" field of a record: the digits of an integer.
RecordIds == { << "1" >>, << "0", "1" >>, << "1", "1" >> }

MetricValues == 0 .. MaxValue

\* The record on line n of the input, with id `id`.
Record(n, id) ==
  [ id               |-> id,
    query            |-> << "query", n >>,
    context          |-> << [ chunk_text |-> << "chunk_text", n >> ] >>,
    predicted_answer |-> << "predicted_answer", n >>,
    ideal_answer     |-> << "ideal_answer", n >> ]

\* Every input file of at most MaxRecords records.
InputFiles ==
  UNION { { [ n \in 1 .. len |-> Record(n, ids[n]) ] :
              ids \in [ 1 .. len -> RecordIds ] } : len \in 0 .. MaxRecords }

\* ------------------------------------------------------- pure computations
Digit(c) == CASE c = "0" -> 0 [] c = "1" -> 1 [] OTHER -> -1

\* int(text) is defined on a non-empty run of digits and raises ValueError
\* otherwise.
IsInt(text) == Len(text) > 0 /\ \A i \in 1 .. Len(text) : Digit(text[i]) >= 0

RECURSIVE IntOfPrefix(_, _)
IntOfPrefix(text, n) ==
  IF n = 0 THEN 0 ELSE 10 * IntOfPrefix(text, n - 1) + Digit(text[n])

IntOf(text) == IntOfPrefix(text, Len(text))

\* text.split(','): the pieces between the commas, empty pieces included.
RECURSIVE SplitFrom(_, _, _, _)
SplitFrom(text, i, cur, acc) ==
  IF i > Len(text) THEN Append(acc, cur)
  ELSE IF text[i] = "," THEN SplitFrom(text, i + 1, << >>, Append(acc, cur))
  ELSE SplitFrom(text, i + 1, Append(cur, text[i]), acc)

Split(text) == SplitFrom(text, 1, << >>, << >>)

\* list(map(int, arg.split(','))) raises when a piece is not an integer.
QsRaises(arg) ==
  arg # Absent /\ \E i \in 1 .. Len(Split(arg)) : ~IsInt(Split(arg)[i])

\* The list of ints an argument stands for; [] when it is absent.
ParseQs(arg) ==
  IF arg = Absent THEN << >>
  ELSE [ i \in 1 .. Len(Split(arg)) |-> IntOf(Split(arg)[i]) ]

Elems(list) == { list[i] : i \in 1 .. Len(list) }

\* Float comparison: every comparison with NaN is false.
FloatGT(x, y) == x.kind = "float" /\ y.kind = "float" /\ x.tenths > y.tenths
FloatLT(x, y) == x.kind = "float" /\ y.kind = "float" /\ x.tenths < y.tenths

\* The temperature the client is given.
ClampTemp(t) ==
  IF t = NoFloat \/ FloatGT(t, Float(10)) \/ FloatLT(t, Float(0))
  THEN Float(0) ELSE t

\* A skip test that forgets the override by use_qs.
ShouldSkipIgnoringUse(id, skip, use) == IntOf(id) \in Elems(skip)

\* The condition of the `continue`.
ShouldSkip(id, skip, use) ==
  IntOf(id) \in Elems(skip) /\ IntOf(id) \notin Elems(use)

\* metric.upper()
Upper(metric) ==
  CASE metric = "faithfulness"        -> "FAITHFULNESS"
    [] metric = "answer_relevance"    -> "ANSWER_RELEVANCE"
    [] metric = "context_precision"   -> "CONTEXT_PRECISION"
    [] metric = "context_utilization" -> "CONTEXT_UTILIZATION"
    [] metric = "context_relevance"   -> "CONTEXT_RELEVANCE"
    [] metric = "context_recall"      -> "CONTEXT_RECALL"
    [] metric = "answer_similarity"   -> "ANSWER_SIMILARITY"
    [] metric = "answer_correctness"  -> "ANSWER_CORRECTNESS"

\* A header that forgets to upper-case the metric name.
HeaderRowLower(metric) == << "#QID", metric >>

HeaderRow(metric) == << "#QID", Upper(metric) >>

\* The list comprehension over record["context"].
ChunkTexts(record) ==
  [ i \in 1 .. Len(record.context) |-> record.context[i].chunk_text ]

\* The match statement with the arguments of the context_precision case
\* pasted into the context_utilization case.
DispatchPasted(metric, record) ==
  LET question     == record.query
      context      == ChunkTexts(record)
      answer       == record.predicted_answer
      ideal_answer == record.ideal_answer
  IN CASE metric = "faithfulness" ->
            [ kind |-> "call", routine |-> "compute_faithfulness",
              args |-> << question, answer, context, "optimized_prompts" >> ]
       [] metric = "answer_relevance" ->
            [ kind |-> "call", routine |-> "compute_answer_relevance",
              args |-> << question, context, answer, "optimized_prompts",
                          "encoder" >> ]
       [] metric = "context_precision" ->
            [ kind |-> "call", routine |-> "compute_context_precision",
              args |-> << question, ideal_answer, context,
                          "optimized_prompts" >> ]
       [] metric = "context_utilization" ->
            [ kind |-> "call", routine |-> "compute_context_precision",
              args |-> << question, ideal_answer, context,
                          "optimized_prompts" >> ]
       [] metric = "context_relevance" ->
            [ kind |-> "call", routine |-> "compute_context_relevance",
              args |-> << question, context, "optimized_prompts" >> ]
       [] metric = "context_recall" ->
            [ kind |-> "call", routine |-> "compute_context_recall",
              args |-> << context, answer, "optimized_prompts" >> ]
       [] metric = "answer_similarity" ->
            [ kind |-> "raise", routine |-> "NotImplementedError",
              args |-> << >> ]
       [] metric = "answer_correctness" ->
            [ kind |-> "call", routine |-> "compute_answer_correctness",
              args |-> << ideal_answer, answer, "optimized_prompts" >> ]
       [] OTHER ->
            [ kind |-> "unsupported", routine |-> "print", args |-> << >> ]

\* The match statement: the routine called and its positional arguments, or
\* the exception raised, or the fall-through of `case _`.
Dispatch(metric, record) ==
  LET question     == record.query
      context      == ChunkTexts(record)
      answer       == record.predicted_answer
      ideal_answer == record.ideal_answer
  IN CASE metric = "faithfulness" ->
            [ kind |-> "call", routine |-> "compute_faithfulness",
              args |-> << question, answer, context, "optimized_prompts" >> ]
       [] metric = "answer_relevance" ->
            [ kind |-> "call", routine |-> "compute_answer_relevance",
              args |-> << question, context, answer, "optimized_prompts",
                          "encoder" >> ]
       [] metric = "context_precision" ->
            [ kind |-> "call", routine |-> "compute_context_precision",
              args |-> << question, ideal_answer, context,
                          "optimized_prompts" >> ]
       [] metric = "context_utilization" ->
            [ kind |-> "call", routine |-> "compute_context_precision",
              args |-> << question, answer, context, "optimized_prompts" >> ]
       [] metric = "context_relevance" ->
            [ kind |-> "call", routine |-> "compute_context_relevance",
              args |-> << question, context, "optimized_prompts" >> ]
       [] metric = "context_recall" ->
            [ kind |-> "call", routine |-> "compute_context_recall",
              args |-> << context, answer, "optimized_prompts" >> ]
       [] metric = "answer_similarity" ->
            [ kind |-> "raise", routine |-> "NotImplementedError",
              args |-> << >> ]
       [] metric = "answer_correctness" ->
            [ kind |-> "call", routine |-> "compute_answer_correctness",
              args |-> << ideal_answer, answer, "optimized_prompts" >> ]
       [] OTHER ->
            [ kind |-> "unsupported", routine |-> "print", args |-> << >> ]

\* f"{metric_value:.3f}": sixteenths to thousandths, correctly rounded, a tie
\* going to the even neighbour.
Format3f(v) ==
  LET q == (v * 1000) \div 16
      r == (v * 1000) % 16
  IN IF 2 * r < 16 THEN q
     ELSE IF 2 * r > 16 THEN q + 1
     ELSE IF q % 2 = 0 THEN q ELSE q + 1

\* f"{id}\t{metric_value:.3f}\n"
DataRow(id, value) == << id, Format3f(value) >>

\* ---------------------------------------------------------------- the state
VARIABLES
  args,          \* the parsed command line (argparse's namespace)
  input,         \* the records of the input file, in order
  pc,            \* where runner() is
  model_temp,    \* local model_temp
  skip_qs,       \* local skip_qs
  use_qs,        \* local use_qs
  lm,            \* the configured LLM clients: none, then the one built
  pos,           \* how many lines of the input have been read
  report,        \* the rows of the report file
  calls,         \* the metric routines called, in order, with what they returned
  skipped,       \* the line numbers at which the `continue` was taken
  stdout,        \* what has been printed
  error,         \* the exception that ended the run, None if none
  logs_cleaned   \* whether clean_up_log_files() has run

vars == << args, input, pc, model_temp, skip_qs, use_qs, lm, pos, report,
           calls, skipped, stdout, error, logs_cleaned >>

Init ==
  /\ args \in [ metric : Metrics, model_temp : TempArgs, qs_to_skip : QsArgs,
                qs_to_use : QsArgs, debug : BOOLEAN ]
  /\ input \in InputFiles
  /\ pc = "parse_args"
  /\ model_temp = NoFloat
  /\ skip_qs = << >>
  /\ use_qs = << >>
  /\ lm = << >>
  /\ pos = 0
  /\ report = << >>
  /\ calls = << >>
  /\ skipped = { }
  /\ stdout = << >>
  /\ error = None
  /\ logs_cleaned = FALSE

\* Lines 52-70 when an int() of a list argument raises: the run ends before
\* anything is configured or written.
ParseArgsRaises ==
  /\ pc = "parse_args"
  /\ QsRaises(args.qs_to_skip) \/ QsRaises(args.qs_to_use)
  /\ pc' = "raised"
  /\ error' = "ValueError"
  /\ model_temp' = ClampTemp(args.model_temp)
  /\ skip_qs' = IF QsRaises(args.qs_to_skip) THEN << >>
                ELSE ParseQs(args.qs_to_skip)
  /\ UNCHANGED << args, input, use_qs, lm, pos, report, calls, skipped,
                  stdout, logs_cleaned >>

\* Lines 52-70: the temperature is clamped and the two lists are parsed.
ParseArgs ==
  /\ pc = "parse_args"
  /\ ~QsRaises(args.qs_to_skip) /\ ~QsRaises(args.qs_to_use)
  /\ model_temp' = ClampTemp(args.model_temp)
  /\ skip_qs' = ParseQs(args.qs_to_skip)
  /\ use_qs' = ParseQs(args.qs_to_use)
  /\ pc' = "configure"
  /\ UNCHANGED << args, input, lm, pos, report, calls, skipped, stdout,
                  error, logs_cleaned >>

\* Lines 72-87: the LLM client is built with the local model_temp.
Configure ==
  /\ pc = "configure"
  /\ lm' = << [ model |-> "models/gemini-1.0-pro",
                 max_output_tokens |-> 1024, temperature |-> model_temp ] >>
  /\ pc' = "open"
  /\ UNCHANGED << args, input, model_temp, skip_qs, use_qs, pos, report,
                  calls, skipped, stdout, error, logs_cleaned >>

\* Lines 89-92: both files are opened and the header row is written.
WriteHeader ==
  /\ pc = "open"
  /\ report' = << HeaderRow(args.metric) >>
  /\ pc' = "loop"
  /\ UNCHANGED << args, input, model_temp, skip_qs, use_qs, lm, pos, calls,
                  skipped, stdout, error, logs_cleaned >>

\* Lines 93-100: the next record is read and the `continue` is taken.
SkipRecord ==
  /\ pc = "loop"
  /\ pos < Len(input)
  /\ ShouldSkip(input[pos + 1].id, skip_qs, use_qs)
  /\ pos' = pos + 1
  /\ skipped' = skipped \cup { pos + 1 }
  /\ UNCHANGED << args, input, pc, model_temp, skip_qs, use_qs, lm, report,
                  calls, stdout, error, logs_cleaned >>

\* Lines 93-137 for a record that is not skipped and whose metric has a
\* routine: the routine is called, its value is printed and its row written.
ProcessRecord ==
  /\ pc = "loop"
  /\ pos < Len(input)
  /\ ~ShouldSkip(input[pos + 1].id, skip_qs, use_qs)
  /\ Dispatch(args.metric, input[pos + 1]).kind = "call"
  /\ \E metric_value \in MetricValues :
       /\ calls' = Append(calls,
                     [ line    |-> pos + 1,
                       routine |-> Dispatch(args.metric, input[pos + 1]).routine,
                       args    |-> Dispatch(args.metric, input[pos + 1]).args,
                       ret     |-> metric_value ])
       /\ stdout' = Append(stdout, << "query", input[pos + 1].id, metric_value >>)
       /\ report' = Append(report, DataRow(input[pos + 1].id, metric_value))
  /\ pos' = pos + 1
  /\ UNCHANGED << args, input, pc, model_temp, skip_qs, use_qs, lm, skipped,
                  error, logs_cleaned >>

\* Lines 93-136 for a record that is not skipped and whose metric has no
\* routine. answer_similarity raises NotImplementedError at line 128. Any
\* other metric reaches `case _`, which prints its message and falls through
\* to line 136, where metric_value was never bound: UnboundLocalError. Either
\* way the exception leaves runner(), nothing catching it.
RecordRaises ==
  /\ pc = "loop"
  /\ pos < Len(input)
  /\ ~ShouldSkip(input[pos + 1].id, skip_qs, use_qs)
  /\ Dispatch(args.metric, input[pos + 1]).kind # "call"
  /\ pos' = pos + 1
  /\ pc' = "raised"
  /\ IF Dispatch(args.metric, input[pos + 1]).kind = "raise"
     THEN /\ error' = Dispatch(args.metric, input[pos + 1]).routine
          /\ stdout' = stdout
     ELSE /\ error' = "UnboundLocalError"
          /\ stdout' = Append(stdout, << "Unsupported metric", args.metric >>)
  /\ UNCHANGED << args, input, model_temp, skip_qs, use_qs, lm, report,
                  calls, skipped, logs_cleaned >>

\* Lines 93, 139-140: the input is exhausted, the files are closed and the
\* log files are cleaned up unless --debug was given.
Finish ==
  /\ pc = "loop"
  /\ pos = Len(input)
  /\ pc' = "done"
  /\ logs_cleaned' = ~args.debug
  /\ UNCHANGED << args, input, model_temp, skip_qs, use_qs, lm, pos, report,
                  calls, skipped, stdout, error >>

Next ==
  \/ ParseArgsRaises
  \/ ParseArgs
  \/ Configure
  \/ WriteHeader
  \/ SkipRecord
  \/ ProcessRecord
  \/ RecordRaises
  \/ Finish

Spec == Init /\ [][Next]_vars

\* ------------------------------------------------------------------ claims
\* The metrics that have a routine.
SupportedMetrics ==
  { "faithfulness", "answer_relevance", "context_precision",
    "context_utilization", "context_relevance", "context_recall",
    "answer_correctness" }

UpperCased ==
  [ faithfulness        |-> "FAITHFULNESS",
    answer_relevance    |-> "ANSWER_RELEVANCE",
    context_precision   |-> "CONTEXT_PRECISION",
    context_utilization |-> "CONTEXT_UTILIZATION",
    context_relevance   |-> "CONTEXT_RELEVANCE",
    context_recall      |-> "CONTEXT_RECALL",
    answer_correctness  |-> "ANSWER_CORRECTNESS" ]

RoutineOf ==
  [ faithfulness        |-> "compute_faithfulness",
    answer_relevance    |-> "compute_answer_relevance",
    context_precision   |-> "compute_context_precision",
    context_utilization |-> "compute_context_precision",
    context_relevance   |-> "compute_context_relevance",
    context_recall      |-> "compute_context_recall",
    answer_correctness  |-> "compute_answer_correctness" ]

\* The ids of the first n records that were not skipped, in input order.
RECURSIVE KeptIds(_)
KeptIds(n) ==
  IF n = 0 THEN << >>
  ELSE IF n \in skipped THEN KeptIds(n - 1)
  ELSE Append(KeptIds(n - 1), input[n].id)

\* The ids carried by the data rows of the report, in file order.
RowIds == [ i \in 1 .. Len(report) - 1 |-> report[i + 1][1] ]

CallLines == { calls[i].line : i \in 1 .. Len(calls) }

\* What the two list arguments stand for, read off the command line.
SkipList == Elems(ParseQs(args.qs_to_skip))
UseList  == Elems(ParseQs(args.qs_to_use))

\* C1: for a supported metric the run is a single pass: nothing is written
\* before the files are opened; from then on the report is one header row
\* ("#QID", the upper-cased metric name) followed by one row per record read
\* so far that was not skipped, carrying that record's id, in input order;
\* every line read is accounted for exactly once (skipped, or processed by one
\* call); the run cannot get stuck before the end of the input and is done
\* only when every record has been read.
C1_SinglePass ==
  args.metric \in SupportedMetrics =>
    /\ pos \in 0 .. Len(input)
    /\ pc \in { "parse_args", "configure", "open", "raised" } =>
         report = << >> /\ pos = 0
    /\ pc \in { "loop", "done" } =>
         /\ Len(report) >= 1
         /\ report[1] = << "#QID", UpperCased[args.metric] >>
         /\ RowIds = KeptIds(pos)
         /\ CallLines \cup skipped = 1 .. pos
         /\ Len(calls) + Cardinality(skipped) = pos
    /\ pc \in { "parse_args", "configure", "open", "loop" } => ENABLED Next
    /\ pc = "done" => pos = Len(input)

\* C1 witness: a finished run over two records, the first skipped and the
\* second written.
C1_Witness ==
  /\ pc = "done"
  /\ args.metric \in SupportedMetrics
  /\ Len(input) = 2
  /\ skipped = { 1 }
  /\ Len(report) = 2
  /\ report[2][1] = input[2].id

\* The dispatch part of C2, for the metrics the claim lists: every record
\* read and not skipped has exactly one call, to the routine of --metric;
\* context_precision passes that record's ideal_answer and
\* context_utilization its predicted_answer; the i-th row belongs to the i-th
\* call.
C2_Dispatch ==
  /\ CallLines = (1 .. pos) \ skipped
  /\ Len(calls) = Cardinality(CallLines)
  /\ report # << >> => Len(report) = Len(calls) + 1
  /\ \A i \in 1 .. Len(calls) :
       /\ calls[i].routine = RoutineOf[args.metric]
       /\ args.metric = "context_precision" =>
            calls[i].args[2] = input[calls[i].line].ideal_answer
       /\ args.metric = "context_utilization" =>
            calls[i].args[2] = input[calls[i].line].predicted_answer
       /\ report[i + 1][1] = input[calls[i].line].id

\* C2 as stated: the dispatch is as listed and the value written in a row is
\* the value the routine returned (thousandths against sixteenths).
C2_ValueAsReturned ==
  args.metric \in SupportedMetrics =>
    /\ C2_Dispatch
    /\ \A i \in 1 .. Len(calls) : report[i + 1][2] * 16 = calls[i].ret * 1000

\* C2 amended: the dispatch is as listed and the value written in a row is
\* the value the routine returned rounded to three decimals, so the two
\* differ by at most 0.0005.
C2_ValueRounded ==
  args.metric \in SupportedMetrics =>
    /\ C2_Dispatch
    /\ \A i \in 1 .. Len(calls) :
         /\ report[i + 1][2] * 16 - calls[i].ret * 1000 <= 8
         /\ calls[i].ret * 1000 - report[i + 1][2] * 16 <= 8

\* C2 witness: a finished context_utilization run whose routine returned
\* 0.0625 for a record, written as 0.062.
C2_Witness ==
  /\ pc = "done"
  /\ args.metric = "context_utilization"
  /\ \E i \in 1 .. Len(calls) :
       /\ calls[i].ret = 1
       /\ report[i + 1] = << input[calls[i].line].id, 62 >>
       /\ calls[i].args[2] = << "predicted_answer", calls[i].line >>

C4_OnlyUsedIds ==
  args.qs_to_use # Absent =>
    \A i \in 1 .. Len(RowIds) : IntOf(RowIds[i]) \in UseList

\* C5 as stated: the temperature of the configured client is a number between
\* 0.0 and 1.0 inclusive; it is --model-temp when that lies in the range and
\* 0.0 when --model-temp is absent, below 0.0 or above 1.0.
C5_TemperatureInRange ==
  \A i \in 1 .. Len(lm) :
    /\ lm[i].temperature.kind = "float"
    /\ lm[i].temperature.tenths \in 0 .. 10
    /\ ( args.model_temp.kind = "float" /\ args.model_temp.tenths \in 0 .. 10 ) =>
         lm[i].temperature = args.model_temp
    /\ ( \/ args.model_temp = NoFloat
         \/ ( args.model_temp.kind = "float" /\ args.model_temp.tenths < 0 )
         \/ ( args.model_temp.kind = "float" /\ args.model_temp.tenths > 10 ) ) =>
         lm[i].temperature = Float(0)

\* C6 as stated: once the pass has begun no exception ends the run; a record
\* whose metric has no routine gets a printed message and the pass goes on, so
\* the run stops only at the end of the input.
C6_PrintAndContinue ==
  report # << >> =>
    /\ error = None
    /\ pc # "loop" => ( pc = "done" /\ pos = Len(input) )
    /\ args.metric \notin SupportedMetrics =>
         Len(stdout) = pos - Cardinality(skipped)


=============================================================================
